---- MODULE Spec2Model ----
(***************************************************************************)
(* Model of livingpark_utils/dataset/ppmi.py: cohort_id, disease_duration  *)
(* (with its nested abs_month_diff), clean_protocol_description and        *)
(* find_nifti_file_in_cache.                                               *)
(*                                                                         *)
(* Each function is a call: an Init that draws the arguments (and the      *)
(* files or the cache directory the call reads) from bounded sets, and an  *)
(* action that runs the whole body and stores what it returned.  There is  *)
(* one specification per function; the variables of the other functions    *)
(* stay at their idle values.                                              *)
(***************************************************************************)
EXTENDS Integers, Sequences, FiniteSets

VARIABLES
    fn,         \* the function under call: "cohort_id", "abs_month_diff", ...
    pc,         \* "call" before the body has run, "done" after
    cohortA,    \* cohort_id: the PATNO column of a first cohort
    cohortB,    \* cohort_id: the PATNO column of a second cohort
    idA,        \* cohort_id(cohortA), a string (sequence of characters)
    idB,        \* cohort_id(cohortB)
    hashA,      \* sign of hash(tuple(sorted(cohortA["PATNO"]))): -1, 0, 1
    x,          \* abs_month_diff: first date
    y,          \* abs_month_diff: second date
    months,     \* abs_month_diff(x, y)
    desc,       \* clean_protocol_description: the argument
    cleaned,    \* clean_protocol_description(desc)
    cache,      \* find_nifti_file_in_cache: the files under cache_dir/base_dir
    query,      \* find_nifti_file_in_cache: subject_id, event_id, protocol_description
    found,      \* find_nifti_file_in_cache: the returned path ("" is <<>>)
    warnings,   \* number of logging.warning calls made
    disk,       \* disease_duration: the study files present in study_data_dir
    force,      \* disease_duration: the force argument
    minimal,    \* disease_duration: the _minimal argument
    supplied,   \* disease_duration: the files the downloader manages to fetch
    diagTable,  \* rows of PD_Diagnosis_History.csv
    examTable,  \* rows of MDS-UPDRS_Part_III.csv
    stillMissing, \* what get_study_files reported as still missing
    outcome     \* disease_duration: "none", "returned" or the exception raised,
                \* with the returned table in outcome.table

vars == <<fn, pc, cohortA, cohortB, idA, idB, hashA, x, y, months, desc, cleaned,
          cache, query, found, warnings, disk, force, minimal, supplied, diagTable,
          examTable, stillMissing, outcome>>

(***************************************************************************)
(* Bounds of the model.                                                    *)
(***************************************************************************)
MaxPatno == 2
MaxCohort == 3

Patnos == 1..MaxPatno

RECURSIVE SeqsUpTo(_, _)
SeqsUpTo(S, n) ==
    IF n = 0 THEN {<<>>}
    ELSE LET shorter == SeqsUpTo(S, n - 1)
         IN  shorter \cup {Append(s, e) : s \in {t \in shorter : Len(t) = n - 1}, e \in S}

Cohorts == SeqsUpTo(Patnos, MaxCohort)

(***************************************************************************)
(* 64-bit words, as the hash of a tuple is computed on them (Py_uhash_t).  *)
(* A word is its 8 bytes, least significant first.                         *)
(***************************************************************************)
WordLen == 8

RECURSIVE ToBytes(_, _)
ToBytes(n, k) == IF k = 0 THEN <<>> ELSE <<n % 256>> \o ToBytes(n \div 256, k - 1)

U64(n) == ToBytes(n, WordLen)

RECURSIVE AddCarry(_, _, _, _)
AddCarry(a, b, i, c) ==
    IF i > WordLen THEN <<>>
    ELSE LET s == a[i] + b[i] + c
         IN  <<s % 256>> \o AddCarry(a, b, i + 1, s \div 256)

U64Add(a, b) == AddCarry(a, b, 1, 0)

RECURSIVE Column(_, _, _, _)
Column(a, b, k, i) ==
    IF i > k THEN 0 ELSE a[i] * b[k + 1 - i] + Column(a, b, k, i + 1)

RECURSIVE MulCarry(_, _, _, _)
MulCarry(a, b, k, c) ==
    IF k > WordLen THEN <<>>
    ELSE LET s == Column(a, b, k, 1) + c
         IN  <<s % 256>> \o MulCarry(a, b, k + 1, s \div 256)

U64Mul(a, b) == MulCarry(a, b, 1, 0)

RECURSIVE XorBits(_, _, _)
XorBits(p, q, n) ==
    IF n = 0 THEN 0
    ELSE ((p + q) % 2) + 2 * XorBits(p \div 2, q \div 2, n - 1)

U64Xor(a, b) == [i \in 1..WordLen |-> XorBits(a[i], b[i], 8)]

\* _PyHASH_XXROTATE: rotate left by 31 bits = rotate left by 32, then right by 1.
U64Rotl31(a) ==
    LET r == [i \in 1..WordLen |-> a[((i + 3) % WordLen) + 1]]
    IN  [i \in 1..WordLen |-> (r[i] \div 2) + 128 * (r[(i % WordLen) + 1] % 2)]

XXPRIME_1 == <<135, 202, 235, 133, 177, 121, 55, 158>>   \* 11400714785074694791
XXPRIME_2 == <<79, 235, 212, 39, 61, 174, 178, 194>>     \* 14029467366897019727
XXPRIME_5 == <<197, 103, 86, 22, 47, 235, 212, 39>>      \* 2870177450012600261
LenMangle == 3527539
AllOnes == [i \in 1..WordLen |-> 255]                    \* (Py_uhash_t)-1
ErrorReplacement == 1546275796

\* hash() of a patient id: a small non-negative int hashes to itself.
IntHash(n) == U64(n)

RECURSIVE TupleLanes(_, _, _)
TupleLanes(t, i, acc) ==
    IF i > Len(t) THEN acc
    ELSE TupleLanes(t, i + 1,
            U64Mul(U64Rotl31(U64Add(acc, U64Mul(IntHash(t[i]), XXPRIME_2))), XXPRIME_1))

\* hash(tuple): the xxHash-style tuple hash of CPython 3.8+ (64-bit build).
TupleHash(t) ==
    LET acc == U64Add(TupleLanes(t, 1, XXPRIME_5),
                      U64Xor(U64(Len(t)), U64Xor(XXPRIME_5, U64(LenMangle))))
    IN  IF acc = AllOnes THEN U64(ErrorReplacement) ELSE acc

(***************************************************************************)
(* str() of the signed 64-bit value (Py_hash_t) of a word.                 *)
(***************************************************************************)
IsNegative(a) == a[WordLen] >= 128
IsZero(a) == \A i \in 1..WordLen : a[i] = 0

Negate(a) == U64Add([i \in 1..WordLen |-> 255 - a[i]], U64(1))

\* Long division by 10, from the most significant byte: <<quotient, remainder>>.
RECURSIVE DivTen(_, _, _)
DivTen(a, i, r) ==
    IF i = 0 THEN <<<<>>, r>>
    ELSE LET cur  == r * 256 + a[i]
             rest == DivTen(a, i - 1, cur % 10)
         IN  <<Append(rest[1], cur \div 10), rest[2]>>

DigitChar(d) == <<"0", "1", "2", "3", "4", "5", "6", "7", "8", "9">>[d + 1]

RECURSIVE Digits(_)
Digits(a) ==
    IF IsZero(a) THEN <<>>
    ELSE LET qr == DivTen(a, WordLen, 0)
         IN  Append(Digits(qr[1]), DigitChar(qr[2]))

StrOfHash(a) ==
    IF IsZero(a) THEN <<"0">>
    ELSE IF IsNegative(a) THEN <<"-">> \o Digits(Negate(a))
    ELSE Digits(a)

SignOfHash(a) == IF IsZero(a) THEN 0 ELSE IF IsNegative(a) THEN -1 ELSE 1

\* str.replace(old, new) for one-character old and new.
Replace(s, old, new) == [i \in 1..Len(s) |-> IF s[i] = old THEN new ELSE s[i]]

\* sorted(): ascending insertion sort.
RECURSIVE Insert(_, _)
Insert(s, e) ==
    IF s = <<>> THEN <<e>>
    ELSE IF e <= s[1] THEN <<e>> \o s
    ELSE <<s[1]>> \o Insert(Tail(s), e)

RECURSIVE Sorted(_)
Sorted(s) == IF s = <<>> THEN <<>> ELSE Insert(Sorted(Tail(s)), s[1])

\* A hash of the ids in the order given (the sort forgotten).
CohortHashUnsorted(patnos) == TupleHash(patnos)

\* hash(tuple(sorted(cohort["PATNO"])))
CohortHash(patnos) == TupleHash(Sorted(patnos))

\* cohort_id(cohort), for the PATNO column of the cohort.
cohort_id(patnos) == Replace(StrOfHash(CohortHash(patnos)), "-", "_")

(***************************************************************************)
(* Calendar dates (datetime.datetime at midnight, as parse() of a date     *)
(* string gives) and dateutil's relativedelta(dt1, dt2).                   *)
(***************************************************************************)
MaxYears == 2

Years == {2015 + k : k \in 0..(MaxYears - 1)}
DaySamples == {1, 5, 10, 28, 29, 30, 31}

IsLeap(year) == (year % 4 = 0) /\ ((year % 100 # 0) \/ (year % 400 = 0))

\* calendar.monthrange(year, month)[1]
DaysInMonth(year, month) ==
    IF month = 2 THEN (IF IsLeap(year) THEN 29 ELSE 28)
    ELSE IF month \in {4, 6, 9, 11} THEN 30
    ELSE 31

Date(yy, mm, dd) == [year |-> yy, month |-> mm, day |-> dd]

Dates ==
    {Date(yy, mm, dd) : yy \in Years, mm \in 1..12, dd \in DaySamples}
        \cap {d \in [year : Years, month : 1..12, day : DaySamples] :
                d.day <= DaysInMonth(d.year, d.month)}

\* datetime comparison dt1 < dt2
DateLt(a, b) ==
    \/ a.year < b.year
    \/ a.year = b.year /\ a.month < b.month
    \/ a.year = b.year /\ a.month = b.month /\ a.day < b.day

Abs(n) == IF n < 0 THEN -n ELSE n
Sign(n) == IF n < 0 THEN -1 ELSE 1
Min(a, b) == IF a <= b THEN a ELSE b

\* relativedelta._set_months: split a signed month count into years and months.
SetMonths(m) ==
    IF Abs(m) > 11
    THEN [years |-> Sign(m) * ((m * Sign(m)) \div 12), months |-> Sign(m) * ((m * Sign(m)) % 12)]
    ELSE [years |-> 0, months |-> m]

\* relativedelta.__radd__(dt) for a delta of years and months: the month is
\* wrapped into 1..12 and the day clipped to the length of the target month.
AddDelta(dt, delta) ==
    LET rawMonth == dt.month + delta.months
        yy == dt.year + delta.years
                + (IF rawMonth > 12 THEN 1 ELSE IF rawMonth < 1 THEN -1 ELSE 0)
        mm == IF rawMonth > 12 THEN rawMonth - 12
              ELSE IF rawMonth < 1 THEN rawMonth + 12
              ELSE rawMonth
    IN  Date(yy, mm, Min(DaysInMonth(yy, mm), dt.day))

\* The loop of relativedelta.__init__: while the month-shifted dt2 overshoots
\* dt1, take one month back (towards zero).
RECURSIVE AdjustMonths(_, _, _)
AdjustMonths(dt1, dt2, m) ==
    LET dtm == AddDelta(dt2, SetMonths(m))
    IN  IF DateLt(dt1, dt2)
        THEN (IF DateLt(dtm, dt1) THEN AdjustMonths(dt1, dt2, m + 1) ELSE m)
        ELSE (IF DateLt(dt1, dtm) THEN AdjustMonths(dt1, dt2, m - 1) ELSE m)

\* relativedelta(dt1, dt2): its years and months fields.
relativedelta(dt1, dt2) ==
    SetMonths(AdjustMonths(dt1, dt2,
        (dt1.year - dt2.year) * 12 + (dt1.month - dt2.month)))

\* abs_month_diff(x, y), nested in disease_duration.
abs_month_diff(a, b) ==
    LET delta == relativedelta(a, b)
    IN  Abs(delta.years * 12) + Abs(delta.months)

(***************************************************************************)
(* clean_protocol_description.  A string is a sequence of characters.      *)
(***************************************************************************)
MaxDescLen == 3

\* The characters of the class [\s()/-] of the first substitution.
Separators == {" ", "\t", "(", ")", "/", "-"}
DescAlphabet == Separators \cup {"_", "A"}
Descs == SeqsUpTo(DescAlphabet, MaxDescLen)

\* re.sub(r"[\s()/-]", "_", s)
SubSeparators(s) == [i \in 1..Len(s) |-> IF s[i] \in Separators THEN "_" ELSE s[i]]

\* re.sub(r"_+", "_", s)
RECURSIVE CollapseUnderscores(_)
CollapseUnderscores(s) ==
    IF Len(s) < 2 THEN s
    ELSE IF s[1] = "_" /\ s[2] = "_" THEN CollapseUnderscores(Tail(s))
    ELSE <<s[1]>> \o CollapseUnderscores(Tail(s))

RECURSIVE LStrip(_, _)
LStrip(s, c) == IF s # <<>> /\ s[1] = c THEN LStrip(Tail(s), c) ELSE s

RECURSIVE RStrip(_, _)
RStrip(s, c) ==
    IF s # <<>> /\ s[Len(s)] = c THEN RStrip(SubSeq(s, 1, Len(s) - 1), c) ELSE s

\* str.strip(c)
Strip(s, c) == RStrip(LStrip(s, c), c)

\* A cleaning that forgets the final strip of underscores.
clean_without_strip(s) == CollapseUnderscores(SubSeparators(s))

clean_protocol_description(s) == Strip(CollapseUnderscores(SubSeparators(s)), "_")

(***************************************************************************)
(* find_nifti_file_in_cache.  A path is the sequence of its components     *)
(* followed by the pieces of the file name; the empty string is <<>>.      *)
(***************************************************************************)
MaxFiles == 2

Subjects == {"3001", "3002"}
Events == {"BL", "V04"}
\* protocol_description arguments, and the protocol part of cached file names
ProtocolDescriptions == {<<"A">>, <<"B">>, <<"A", " ", "B">>, <<"(", "A", ")">>, <<"A", "-", "B">>}
FileProtocols == {<<"A">>, <<"B">>, <<"A", "_", "B">>}
ImageIds == {"I1", "I2"}
cache_dir == ".cache"
base_dir == "inputs"

\* os.path.join(cache_dir, base_dir, f"sub-{subject_id}", f"ses-{event_id}", "anat")
AnatDir(subject_id, event_id) ==
    <<cache_dir, base_dir, "sub-", subject_id, "ses-", event_id, "anat">>

\* Number of leading pieces of a path that name its directory.
DirLen == Len(AnatDir("", ""))

\* A file as PPMI names it: PPMI_<subject>_MR_<protocol>_br_raw_<image id>.nii
CachedFile(subject_id, event_id, protocol, image) ==
    AnatDir(subject_id, event_id)
        \o <<"PPMI_", subject_id, "_", "MR", "_">> \o protocol \o <<"_br_raw_", image, ".nii">>

AllCachedFiles ==
    {CachedFile(s, e, p, i) : s \in Subjects, e \in Events, p \in FileProtocols, i \in ImageIds}

RECURSIVE SubsetsUpTo(_, _)
SubsetsUpTo(S, n) ==
    IF n = 0 THEN {{}}
    ELSE LET smaller == SubsetsUpTo(S, n - 1)
         IN  smaller \cup {u \cup {e} : u \in smaller, e \in S}

Caches == SubsetsUpTo(AllCachedFiles, MaxFiles)
Queries == [subject_id : Subjects, event_id : Events, protocol_description : ProtocolDescriptions]

\* The pattern of the search: the directory, then
\* f"PPMI_*{clean_protocol_description(protocol_description)}_br_raw_*.nii".
Expression(subject_id, event_id, protocol_description) ==
    AnatDir(subject_id, event_id)
        \o <<"PPMI_", "*">> \o clean_protocol_description(protocol_description)
        \o <<"_br_raw_", "*", ".nii">>

\* fnmatch of a file name against a pattern: "*" matches any run of pieces.
RECURSIVE FnMatch(_, _)
FnMatch(pattern, name) ==
    IF pattern = <<>> THEN name = <<>>
    ELSE IF pattern[1] = "*"
    THEN FnMatch(Tail(pattern), name) \/ (name # <<>> /\ FnMatch(pattern, Tail(name)))
    ELSE name # <<>> /\ name[1] = pattern[1] /\ FnMatch(Tail(pattern), Tail(name))

\* glob.glob(expression): the directory components carry no wildcard and are
\* matched literally, the file name by fnmatch.
Glob(expression, files) ==
    {f \in files :
        /\ SubSeq(f, 1, DirLen) = SubSeq(expression, 1, DirLen)
        /\ FnMatch(SubSeq(expression, DirLen + 1, Len(expression)),
                   SubSeq(f, DirLen + 1, Len(f)))}

\* A resolver that returns files[0] whenever something matched.
find_first_match(q, files) ==
    LET matched == Glob(Expression(q.subject_id, q.event_id, q.protocol_description), files)
    IN  IF matched # {} THEN [path |-> CHOOSE f \in matched : TRUE, warnings |-> 0]
        ELSE [path |-> <<>>, warnings |-> 1]

\* find_nifti_file_in_cache: the returned path and the warnings logged.
find_nifti_file_in_cache(q, files) ==
    LET expression == Expression(q.subject_id, q.event_id, q.protocol_description)
        matched == Glob(expression, files)
    IN  IF Cardinality(matched) > 1 THEN [path |-> <<>>, warnings |-> 1]
        ELSE IF Cardinality(matched) = 1
        THEN [path |-> CHOOSE f \in matched : TRUE, warnings |-> 0]
        ELSE [path |-> <<>>, warnings |-> 1]

(***************************************************************************)
(* disease_duration.  A date cell of a table is its text, <<year, month,   *)
(* day>>; a missing cell (NaN) is <<>>.  A duration cell is <<n>>, or <<>>  *)
(* for NaN.                                                                *)
(***************************************************************************)
MaxDiagRows == 2
MaxExamRows == 2

NaN == <<>>
UPDRS3 == "MDS-UPDRS_Part_III.csv"
PDHistory == "PD_Diagnosis_History.csv"
required_files == {UPDRS3, PDHistory}

TablePatnos == {1, 2}
DateTexts == {<<2010, 1, 1>>, <<2010, 6, 1>>}
DiagRows == [PATNO : TablePatnos, EVENT_ID : {"SC", "BL"}, PDDXDT : DateTexts \cup {NaN}]
ExamRows == [PATNO : TablePatnos, EVENT_ID : {"BL"}, INFODT : DateTexts]

\* dateutil.parser.parse of a year-month-day text
parse(text) == Date(text[1], text[2], text[3])

\* Downloader.missing_study_files(required_files, force=force)
missing_study_files(required, onDisk, forced) ==
    IF forced THEN required ELSE required \ onDisk

\* Downloader.get_study_files(missing): the files it fetched are written to the
\* study directory and the others are reported as still missing.
get_study_files(requested, onDisk, fetchable) ==
    [disk |-> onDisk \cup (requested \cap fetchable), missing |-> requested \ fetchable]

\* pddxdt[(pddxdt["EVENT_ID"] == "SC") & pddxdt["PDDXDT"].notna()]
IsScreeningWithDate(row) == row.EVENT_ID = "SC" /\ row.PDDXDT # NaN

ScreeningRows(diag) == SelectSeq(diag, IsScreeningWithDate)

Last(S) == CHOOSE i \in S : \A j \in S : j <= i

First(S) == CHOOSE i \in S : \A j \in S : i <= j

\* A mapping in which the first row of a patient wins.
DictFirstWins(rows) ==
    [p \in {rows[i].PATNO : i \in 1..Len(rows)} |->
        rows[First({i \in 1..Len(rows) : rows[i].PATNO = p})].PDDXDT]

\* dict(zip(keys, values)) of the filtered rows: a later row overwrites an
\* earlier one of the same patient.
DictOfZip(rows) ==
    [p \in {rows[i].PATNO : i \in 1..Len(rows)} |->
        rows[Last({i \in 1..Len(rows) : rows[i].PATNO = p})].PDDXDT]

PDDXDT_map(diag) == DictOfZip(ScreeningRows(diag))

\* pdxdur["PATNO"].map(PDDXDT_map): NaN where the patient is no key.
MapPatno(patno, map) == IF patno \in DOMAIN map THEN map[patno] ELSE NaN

\* Series.map with an empty dict gives a float64 column; otherwise the column
\* holds the date texts and the np.nan object itself.
IsFloatColumn(map) == DOMAIN map = {}

\* The lambda of pdxdur.apply(..., axis=1) on one row.
Duration(infodt, pddxdt) ==
    IF pddxdt # NaN THEN <<abs_month_diff(parse(infodt), parse(pddxdt))>> ELSE NaN

\* The returned table: one row per exam row; the date columns are emptied when
\* they are dropped (_minimal).
DurationTable(exam, map, isMinimal) ==
    [i \in 1..Len(exam) |->
        [PATNO |-> exam[i].PATNO,
         EVENT_ID |-> exam[i].EVENT_ID,
         INFODT |-> IF isMinimal THEN NaN ELSE exam[i].INFODT,
         PDDXDT |-> IF isMinimal THEN NaN ELSE MapPatno(exam[i].PATNO, map),
         PDXDUR |-> Duration(exam[i].INFODT, MapPatno(exam[i].PATNO, map))]]

Columns(isMinimal) ==
    IF isMinimal THEN <<"PATNO", "EVENT_ID", "PDXDUR">>
    ELSE <<"PATNO", "EVENT_ID", "INFODT", "PDDXDT", "PDXDUR">>

Raised(exception) == [kind |-> exception, columns |-> <<>>, table |-> <<>>]
NoOutcome == Raised("none")

\* Lines 92-113: read the two tables from the study directory and join them.
\* read_csv raises FileNotFoundError for a file that is not there.  With a
\* float64 PDDXDT column a NaN cell of a row is a fresh float, `is not np.nan`
\* is true of it, and parse() raises TypeError on the float.
ReadAndJoin(onDisk, diag, exam, isMinimal) ==
    IF PDHistory \notin onDisk \/ UPDRS3 \notin onDisk THEN Raised("FileNotFoundError")
    ELSE IF IsFloatColumn(PDDXDT_map(diag)) /\ exam # <<>> THEN Raised("TypeError")
    ELSE [kind |-> "returned",
          columns |-> Columns(isMinimal),
          table |-> DurationTable(exam, PDDXDT_map(diag), isMinimal)]

\* Lines 82-90: what is on disk after the download step, and the still-missing
\* list that get_study_files returned (empty when it was not called).
Download(onDisk, forced, fetchable) ==
    LET missing == missing_study_files(required_files, onDisk, forced)
    IN  IF missing = {} THEN [disk |-> onDisk, missing |-> {}]
        ELSE get_study_files(missing, onDisk, fetchable)

(***************************************************************************)
(* The calls.  Variables of the functions that are not under call keep     *)
(* their idle values.                                                      *)
(***************************************************************************)
cohortVars == <<cohortA, cohortB, idA, idB, hashA>>
dateVars == <<x, y, months>>
cleanVars == <<desc, cleaned>>
cacheVars == <<cache, query, found, warnings>>
durationVars == <<disk, force, minimal, supplied, diagTable, examTable, stillMissing, outcome>>

IdleCohort == cohortA = <<>> /\ cohortB = <<>> /\ idA = <<>> /\ idB = <<>> /\ hashA = 0
IdleDate == x = Date(2015, 1, 1) /\ y = Date(2015, 1, 1) /\ months = 0
IdleClean == desc = <<>> /\ cleaned = <<>>
IdleCache ==
    /\ cache = {}
    /\ query = [subject_id |-> "3001", event_id |-> "BL", protocol_description |-> <<"A">>]
    /\ found = <<>>
    /\ warnings = 0
IdleDuration ==
    /\ disk = {} /\ force = FALSE /\ minimal = TRUE /\ supplied = {}
    /\ diagTable = <<>> /\ examTable = <<>> /\ stillMissing = {} /\ outcome = NoOutcome

\* ---- cohort_id, called on two cohorts ----
InitCohort ==
    /\ fn = "cohort_id" /\ pc = "call"
    /\ cohortA \in Cohorts /\ cohortB \in Cohorts
    /\ idA = <<>> /\ idB = <<>> /\ hashA = 0
    /\ IdleDate /\ IdleClean /\ IdleCache /\ IdleDuration

CohortId ==
    /\ fn = "cohort_id" /\ pc = "call"
    /\ idA' = cohort_id(cohortA)
    /\ idB' = cohort_id(cohortB)
    /\ hashA' = SignOfHash(CohortHash(cohortA))
    /\ pc' = "done"
    /\ UNCHANGED <<fn, cohortA, cohortB, dateVars, cleanVars, cacheVars, durationVars>>

SpecCohort == InitCohort /\ [][CohortId]_vars

\* ---- abs_month_diff ----
InitDate ==
    /\ fn = "abs_month_diff" /\ pc = "call"
    /\ x \in Dates /\ y \in Dates /\ months = 0
    /\ IdleCohort /\ IdleClean /\ IdleCache /\ IdleDuration

AbsMonthDiff ==
    /\ fn = "abs_month_diff" /\ pc = "call"
    /\ months' = abs_month_diff(x, y)
    /\ pc' = "done"
    /\ UNCHANGED <<fn, x, y, cohortVars, cleanVars, cacheVars, durationVars>>

SpecDate == InitDate /\ [][AbsMonthDiff]_vars

\* ---- clean_protocol_description ----
InitClean ==
    /\ fn = "clean_protocol_description" /\ pc = "call"
    /\ desc \in Descs /\ cleaned = <<>>
    /\ IdleCohort /\ IdleDate /\ IdleCache /\ IdleDuration

Clean ==
    /\ fn = "clean_protocol_description" /\ pc = "call"
    /\ cleaned' = clean_protocol_description(desc)
    /\ pc' = "done"
    /\ UNCHANGED <<fn, desc, cohortVars, dateVars, cacheVars, durationVars>>

SpecClean == InitClean /\ [][Clean]_vars

\* ---- find_nifti_file_in_cache ----
InitCache ==
    /\ fn = "find_nifti_file_in_cache" /\ pc = "call"
    /\ cache \in Caches /\ query \in Queries
    /\ found = <<>> /\ warnings = 0
    /\ IdleCohort /\ IdleDate /\ IdleClean /\ IdleDuration

FindNifti ==
    /\ fn = "find_nifti_file_in_cache" /\ pc = "call"
    /\ LET r == find_nifti_file_in_cache(query, cache)
       IN  found' = r.path /\ warnings' = warnings + r.warnings
    /\ pc' = "done"
    /\ UNCHANGED <<fn, cache, query, cohortVars, dateVars, cleanVars, durationVars>>

SpecCache == InitCache /\ [][FindNifti]_vars

\* ---- disease_duration ----
DiseaseDuration ==
    /\ fn = "disease_duration" /\ pc = "call"
    /\ LET after == Download(disk, force, supplied)
       IN  /\ disk' = after.disk
           /\ stillMissing' = after.missing
           /\ outcome' = ReadAndJoin(after.disk, diagTable, examTable, minimal)
    /\ pc' = "done"
    /\ UNCHANGED <<fn, force, minimal, supplied, diagTable, examTable,
                   cohortVars, dateVars, cleanVars, cacheVars>>

\* The study files are in place and nothing is forced: the join on every pair
\* of tables.
InitJoin ==
    /\ fn = "disease_duration" /\ pc = "call"
    /\ disk = required_files /\ force = FALSE /\ supplied = required_files
    /\ minimal \in BOOLEAN
    /\ diagTable \in SeqsUpTo(DiagRows, MaxDiagRows)
    /\ examTable \in SeqsUpTo(ExamRows, MaxExamRows) \ {<<>>}
    /\ stillMissing = {} /\ outcome = NoOutcome
    /\ IdleCohort /\ IdleDate /\ IdleClean /\ IdleCache

SpecJoin == InitJoin /\ [][DiseaseDuration]_vars

\* Every state of the study directory and of the downloader, on tables of one
\* exam row and at most one diagnosis row.
InitDownload ==
    /\ fn = "disease_duration" /\ pc = "call"
    /\ disk \in SUBSET required_files /\ force \in BOOLEAN
    /\ supplied \in SUBSET required_files
    /\ minimal \in BOOLEAN
    /\ diagTable \in SeqsUpTo(DiagRows, 1)
    /\ examTable \in SeqsUpTo(ExamRows, 1) \ {<<>>}
    /\ stillMissing = {} /\ outcome = NoOutcome
    /\ IdleCohort /\ IdleDate /\ IdleClean /\ IdleCache

SpecDownload == InitDownload /\ [][DiseaseDuration]_vars

\* ---- any call ----
Init == InitCohort \/ InitDate \/ InitClean \/ InitCache \/ InitJoin \/ InitDownload
Next == CohortId \/ AbsMonthDiff \/ Clean \/ FindNifti \/ DiseaseDuration
Spec == Init /\ [][Next]_vars

(***************************************************************************)
(* Properties.                                                             *)
(***************************************************************************)
Chars(s) == {s[i] : i \in 1..Len(s)}
DigitChars == {DigitChar(d) : d \in 0..9}

\* What int(s) accepts: an optional sign, then digits, where single
\* underscores may stand between digits.
IsPlainInteger(s) ==
    LET body == IF s # <<>> /\ s[1] \in {"+", "-"} THEN Tail(s) ELSE s
    IN  /\ body # <<>>
        /\ Chars(body) \subseteq DigitChars \cup {"_"}
        /\ body[1] # "_" /\ body[Len(body)] # "_"
        /\ \A i \in 1..(Len(body) - 1) : ~(body[i] = "_" /\ body[i + 1] = "_")

SameCalendarMonth(a, b) == a.year = b.year /\ a.month = b.month
AdjacentCalendarMonths(a, b) ==
    Abs((a.year - b.year) * 12 + (a.month - b.month)) = 1
FirstOfMonth(a) == Date(a.year, a.month, 1)

\* C1: the duration depends only on the year and month of the two dates, not
\* on the day: the same calendar month gives 0, adjacent calendar months give
\* 1 whatever the days, and exam 2015-03-05 with diagnosis 2015-01-10 gives 2.
C1_DurationIgnoresDay ==
    (fn = "abs_month_diff" /\ pc = "done") =>
        /\ months = abs_month_diff(FirstOfMonth(x), FirstOfMonth(y))
        /\ SameCalendarMonth(x, y) => months = 0
        /\ AdjacentCalendarMonths(x, y) => months = 1
        /\ (x = Date(2015, 3, 5) /\ y = Date(2015, 1, 10)) => months = 2

\* C2: the duration is symmetric, abs_month_diff(x, y) = abs_month_diff(y, x),
\* and never negative.
C2_DurationSymmetric ==
    (fn = "abs_month_diff" /\ pc = "done") =>
        months = abs_month_diff(y, x) /\ months >= 0

\* C3: when get_study_files reports a requested file as still missing,
\* disease_duration fails and returns no table.
C3_MissingFileIsFatal ==
    (fn = "disease_duration" /\ pc = "done" /\ stillMissing # {}) =>
        outcome.kind # "returned"

Matched(q, files) ==
    Glob(Expression(q.subject_id, q.event_id, q.protocol_description), files)

InSession(q, files) ==
    {f \in files : SubSeq(f, 1, DirLen) = AnatDir(q.subject_id, q.event_id)
                   /\ f[Len(f)] = ".nii"}

\* C5: when no file matches subject, event and protocol, the resolver searches
\* by subject and event only and returns the file if there is a single one.
C5_FallbackOnSubjectAndEvent ==
    (/\ fn = "find_nifti_file_in_cache" /\ pc = "done"
     /\ Matched(query, cache) = {}
     /\ Cardinality(InSession(query, cache)) = 1) =>
        found \in InSession(query, cache)

\* C6: the id never contains a minus sign and cannot be parsed as an integer,
\* whatever the sign of the hash.
C6_IdIsNoInteger ==
    (fn = "cohort_id" /\ pc = "done") =>
        "-" \notin Chars(idA) /\ ~IsPlainInteger(idA)

SameSet(s, t) == Chars(s) = Chars(t)
Count(s, e) == Cardinality({i \in 1..Len(s) : s[i] = e})
IsPermutation(s, t) ==
    Len(s) = Len(t) /\ \A e \in Chars(s) \cup Chars(t) : Count(s, e) = Count(t, e)

\* C7 as stated: two PATNO columns with the same set of values yield the same
\* id, also when one repeats a value the other lists once.
C7_SameSetSameId ==
    (fn = "cohort_id" /\ pc = "done" /\ SameSet(cohortA, cohortB)) => idA = idB

\* C7 amended: two PATNO columns that list the same values the same number of
\* times, in any order, yield the same id.
C7_PermutationSameId ==
    (fn = "cohort_id" /\ pc = "done" /\ IsPermutation(cohortA, cohortB)) => idA = idB

C7_ReorderedReached ==
    /\ fn = "cohort_id" /\ pc = "done"
    /\ IsPermutation(cohortA, cohortB) /\ cohortA # cohortB
    /\ idA = idB

ScreeningIndexes(diag, patno) ==
    {j \in 1..Len(diag) :
        diag[j].PATNO = patno /\ diag[j].EVENT_ID = "SC" /\ diag[j].PDDXDT # NaN}

\* C8: disease_duration returns one row per exam row, in the same positions:
\* a row of a patient without a screening diagnosis date has a null duration
\* and is not dropped, a row of a patient with one has a defined duration.
C8_OneRowPerExam ==
    (fn = "disease_duration" /\ pc = "done") =>
        /\ outcome.kind = "returned"
        /\ Len(outcome.table) = Len(examTable)
        /\ \A i \in 1..Len(examTable) :
              /\ i \in DOMAIN outcome.table
              /\ outcome.table[i].PATNO = examTable[i].PATNO
              /\ outcome.table[i].EVENT_ID = examTable[i].EVENT_ID
              /\ (ScreeningIndexes(diagTable, examTable[i].PATNO) = {})
                    <=> (outcome.table[i].PDXDUR = NaN)

\* C9: clean_protocol_description is idempotent, and its output holds no
\* whitespace, parenthesis, slash or hyphen, no two consecutive underscores,
\* and no underscore at either end.
C9_CleanIsIdempotentAndSafe ==
    (fn = "clean_protocol_description" /\ pc = "done") =>
        /\ clean_protocol_description(cleaned) = cleaned
        /\ Chars(cleaned) \cap Separators = {}
        /\ \A i \in 1..(Len(cleaned) - 1) : ~(cleaned[i] = "_" /\ cleaned[i + 1] = "_")
        /\ cleaned # <<>> => (cleaned[1] # "_" /\ cleaned[Len(cleaned)] # "_")

C9_CleanedReached ==
    /\ fn = "clean_protocol_description" /\ pc = "done"
    /\ Chars(desc) \cap Separators # {}
    /\ "_" \in Chars(desc)
    /\ cleaned # <<>> /\ cleaned # desc

\* C10: the mapping holds one date per patient, taken from the rows with
\* EVENT_ID "SC" and a present PDDXDT only: the last such row of a patient
\* gives the date used for every exam row of that patient, and the other rows
\* affect no duration.
C10_LastScreeningRowWins ==
    (fn = "disease_duration" /\ pc = "done") =>
        \A i \in 1..Len(examTable) :
            LET rows == ScreeningIndexes(diagTable, examTable[i].PATNO)
            IN  IF rows # {}
                THEN /\ outcome.kind = "returned"
                     /\ outcome.table[i].PDXDUR =
                          <<abs_month_diff(parse(examTable[i].INFODT),
                                           parse(diagTable[Last(rows)].PDDXDT))>>
                ELSE outcome.kind = "returned" => outcome.table[i].PDXDUR = NaN

C10_DuplicateReached ==
    /\ fn = "disease_duration" /\ pc = "done" /\ outcome.kind = "returned"
    /\ \E i \in 1..Len(examTable), j, k \in 1..Len(diagTable) :
          /\ j < k
          /\ {j, k} \subseteq ScreeningIndexes(diagTable, examTable[i].PATNO)
          /\ diagTable[j].PDDXDT # diagTable[k].PDDXDT
          /\ outcome.table[i].PDXDUR # NaN

====
